---- MODULE Spec2Model ----
(***************************************************************************)
(* Model of the inbox listing decoder of go-reddit (reddit/message.go):    *)
(* MessageService.Inbox / InboxUnread / Sent, the private inbox helper,    *)
(* rootInboxListing / inboxListing / inboxThings and the custom            *)
(* inboxThings.UnmarshalJSON that demultiplexes one heterogeneous listing  *)
(* into a comment bucket and a message bucket.                             *)
(*                                                                         *)
(* JSON text is modelled by its parse: every wire value is a record with a *)
(* tag t saying what the text holds at that place (absent, null, a value   *)
(* of the expected JSON type, a value of another JSON type).  The decoding *)
(* operators do to these values what encoding/json does to the text.       *)
(***************************************************************************)
EXTENDS Integers, Sequences, FiniteSets, TLC

\* Longest children array of a response body the transport hands back.
MaxChildren == 2

\* Concurrent callers of the service in the default specification.
Procs == {1}

-----------------------------------------------------------------------------
(* Program constants *)

\* things.go: the kind codes the switch of UnmarshalJSON dispatches on.
kindComment == "t1"
kindMessage == "t4"

\* The error value nil.
ErrNil == "nil"

\* The paths of the three listing endpoints.
pathInbox == "message/inbox"
pathUnread == "message/unread"
pathSent == "message/sent"

-----------------------------------------------------------------------------
(* Go values *)

\* A []*Message: Go tells the nil slice from the empty, non-nil one.
NilSlice == [nil |-> TRUE, elems |-> <<>>]

\* make([]*Message, 0)
makeSlice == [nil |-> FALSE, elems |-> <<>>]

\* append(s, v): the result is never nil.
append(s, v) == [nil |-> FALSE, elems |-> Append(s.elems, v)]

\* The zero Message (new(Message)).  Of the struct's fields the model keeps
\* ID (to tell items apart, and their order) and IsComment; the other string
\* fields decode exactly like ID.
ZeroMessage == [ID |-> "", IsComment |-> FALSE]

\* The zero inboxThings: both buckets nil.
ZeroThings == [Comments |-> NilSlice, Messages |-> NilSlice]

\* The zero inboxListing.
ZeroListing == [Things |-> ZeroThings, After |-> "", Before |-> ""]

\* new(rootInboxListing).  Kind is read by nothing in the package, so the
\* model leaves the field, and the kind member of the body, out.
ZeroRoot == [ptr |-> "obj", Data |-> ZeroListing]

\* A nil *Response, and the *Response of an exchange that took place.
NilResp == "nil"
SomeResp == "response"

\* A nil *Messages, and a nil *rootInboxListing.
NilView == [ptr |-> "nil", Messages |-> NilSlice, After |-> "", Before |-> ""]
NilRoot == [ptr |-> "nil", Data |-> ZeroListing]

-----------------------------------------------------------------------------
(* Wire values: what the response text holds *)

\* A JSON member that should be a string.
JAbsent == [t |-> "absent", s |-> ""]
JNull == [t |-> "null", s |-> ""]
JStr(s) == [t |-> "str", s |-> s]
JOther == [t |-> "other", s |-> ""]

\* The data member of a child envelope: an object holding id and
\* was_comment (wc: "true", "false" or "absent"), or null, or absent, or
\* "bad": text that does not unmarshal into a Message (a string, an array,
\* an object with a member of the wrong type).
PObj(id, wc) == [t |-> "obj", id |-> id, wc |-> wc]
PNull == [t |-> "null", id |-> "", wc |-> "absent"]
PAbsent == [t |-> "absent", id |-> "", wc |-> "absent"]
PBad == [t |-> "bad", id |-> "", wc |-> "absent"]

\* An element of the children array: an envelope object with a string kind,
\* or "bad": text that does not unmarshal into a thing (a number, a string,
\* an object whose kind is not a string).
Env(kind, data) == [t |-> "obj", kind |-> kind, data |-> data]
BadEnv == [t |-> "bad", kind |-> "", data |-> PAbsent]

\* The children member: an array, null, absent, or a value of another type.
CArr(elems) == [t |-> "arr", elems |-> elems]
CNull == [t |-> "null", elems |-> <<>>]
CAbsent == [t |-> "absent", elems |-> <<>>]
COther == [t |-> "other", elems |-> <<>>]

\* The data member of the outer envelope.
DObj(children, after, before) ==
    [t |-> "obj", children |-> children, after |-> after, before |-> before]
DNull == [t |-> "null", children |-> CAbsent, after |-> JAbsent, before |-> JAbsent]
DAbsent == [t |-> "absent", children |-> CAbsent, after |-> JAbsent, before |-> JAbsent]
DOther == [t |-> "other", children |-> CAbsent, after |-> JAbsent, before |-> JAbsent]

\* The response body: an object, the literal null, a value of another type,
\* or text that is not JSON at all (the empty body included).
BObj(data) == [t |-> "obj", data |-> data]
BNull == [t |-> "null", data |-> DAbsent]
BOther == [t |-> "other", data |-> DAbsent]
BSyntax == [t |-> "syntax", data |-> DAbsent]
NoBody == [t |-> "none", data |-> DAbsent]

-----------------------------------------------------------------------------
(* encoding/json, as the package's types make it behave *)

\* The outcomes of a decode: no error, a *json.SyntaxError, or a
\* *json.UnmarshalTypeError.
errSyntax == "json: syntax error"
errType == "json: cannot unmarshal"

\* strings.TrimSpace, on the cursors the model sends.
trimSpace(x) == IF x = " t4_a " THEN "t4_a" ELSE x

\* A string field decoded with the blanks around it cut off.
decodeString_trims(cur, j) ==
    CASE j.t = "str" -> [err |-> ErrNil, v |-> trimSpace(j.s)]
      [] j.t = "other" -> [err |-> errType, v |-> cur]
      [] OTHER -> [err |-> ErrNil, v |-> cur]

\* A string field (After, Before): absent and null leave the field as it
\* is, a JSON string is stored as received, any other value is a type error.
decodeString(cur, j) ==
    CASE j.t = "str" -> [err |-> ErrNil, v |-> j.s]
      [] j.t = "other" -> [err |-> errType, v |-> cur]
      [] OTHER -> [err |-> ErrNil, v |-> cur]

\* was_comment read as true unless it is sent as false.
decodeWasComment_absentIsTrue(wc) == wc # "false"

\* The IsComment field, tagged json:"was_comment": the value of the
\* payload's was_comment member, false when the member is absent.
decodeWasComment(wc) == wc = "true"

\* json.Unmarshal(thing.Data, v) for v = new(Message).  The raw bytes of an
\* absent data member are empty, which is no JSON; null leaves v as it is.
unmarshalMessage(p) ==
    CASE p.t = "obj" ->
           [err |-> ErrNil,
            v |-> [ID |-> p.id, IsComment |-> decodeWasComment(p.wc)]]
      [] p.t = "null" -> [err |-> ErrNil, v |-> ZeroMessage]
      [] p.t = "absent" -> [err |-> errSyntax, v |-> ZeroMessage]
      [] OTHER -> [err |-> errType, v |-> ZeroMessage]

\* thing: the envelope struct {Kind string; Data json.RawMessage}.
toThing(c) == [Kind |-> c.kind, Data |-> c.data]

\* json.Unmarshal(b, &things) for var things []thing.
unmarshalThings(b) ==
    CASE b.t = "arr" ->
           IF \E i \in 1..Len(b.elems) : b.elems[i].t = "bad"
           THEN [err |-> errType, things |-> <<>>]
           ELSE [err |-> ErrNil,
                 things |-> [i \in 1..Len(b.elems) |-> toThing(b.elems[i])]]
      [] b.t = "null" -> [err |-> ErrNil, things |-> <<>>]
      [] OTHER -> [err |-> errType, things |-> <<>>]

-----------------------------------------------------------------------------
(* inboxThings *)

\* init leaving the buckets as they are.
init_keeps(t) == t

\* init making a messages bucket only where there is none.
init_keepsMessages(t) ==
    [Comments |-> makeSlice,
     Messages |-> IF t.Messages.nil THEN makeSlice ELSE t.Messages]

\* init initializes or clears the inbox.
init(t) == [Comments |-> makeSlice, Messages |-> makeSlice]

\* The switch putting a new item in front of its bucket.
route_prepends(t, th) ==
    LET r == unmarshalMessage(th.Data)
        front(s) == [nil |-> FALSE, elems |-> <<r.v>> \o s.elems]
    IN  CASE th.Kind = kindComment /\ r.err = ErrNil ->
               [t EXCEPT !.Comments = front(t.Comments)]
          [] th.Kind = kindMessage /\ r.err = ErrNil ->
               [t EXCEPT !.Messages = front(t.Messages)]
          [] OTHER -> t

\* The switch falling through from the comment case to the message case.
route_fallsThrough(t, th) ==
    LET r == unmarshalMessage(th.Data)
    IN  CASE th.Kind = kindComment /\ r.err = ErrNil ->
               [Comments |-> append(t.Comments, r.v),
                Messages |-> append(t.Messages, r.v)]
          [] th.Kind = kindMessage /\ r.err = ErrNil ->
               [t EXCEPT !.Messages = append(t.Messages, r.v)]
          [] OTHER -> t

\* One iteration of the loop of UnmarshalJSON: the switch on thing.Kind.
route(t, th) ==
    CASE th.Kind = kindComment ->
           LET r == unmarshalMessage(th.Data)
           IN  IF r.err = ErrNil
               THEN [t EXCEPT !.Comments = append(t.Comments, r.v)]
               ELSE t
      [] th.Kind = kindMessage ->
           LET r == unmarshalMessage(th.Data)
           IN  IF r.err = ErrNil
               THEN [t EXCEPT !.Messages = append(t.Messages, r.v)]
               ELSE t
      [] OTHER -> t

\* for _, thing := range things
RECURSIVE routeAll(_, _)
routeAll(t, things) ==
    IF things = <<>> THEN t
    ELSE routeAll(route(t, Head(things)), Tail(things))

\* UnmarshalJSON returning the error of an item instead of dropping the item.
UnmarshalJSON_returnsItemError(t, b) ==
    LET t0 == init(t)
        u == unmarshalThings(b)
        failing == {i \in 1..Len(u.things) :
                      /\ u.things[i].Kind \in {kindComment, kindMessage}
                      /\ unmarshalMessage(u.things[i].Data).err # ErrNil}
    IN  IF u.err # ErrNil
        THEN [err |-> u.err, t |-> t0]
        ELSE IF failing # {}
        THEN [err |-> errType, t |-> t0]
        ELSE [err |-> ErrNil, t |-> routeAll(t0, u.things)]

\* inboxThings.UnmarshalJSON(b): the receiver afterwards, and the error.
UnmarshalJSON(t, b) ==
    LET t0 == init(t)
        u == unmarshalThings(b)
    IN  IF u.err # ErrNil
        THEN [err |-> u.err, t |-> t0]
        ELSE [err |-> ErrNil, t |-> routeAll(t0, u.things)]

-----------------------------------------------------------------------------
(* inboxListing and rootInboxListing *)

\* The first error of a decode that goes on after a type error.
firstErr(e1, e2) == IF e1 # ErrNil THEN e1 ELSE e2

\* The decode of the data member refusing a listing without children.
decodeListing_requiresChildren(l, d) ==
    CASE d.t = "obj" ->
           LET u == IF d.children.t = "absent"
                    THEN [err |-> errType, t |-> l.Things]
                    ELSE UnmarshalJSON(l.Things, d.children)
               a == decodeString(l.After, d.after)
               b == decodeString(l.Before, d.before)
           IN  IF u.err # ErrNil
               THEN [err |-> u.err, v |-> [l EXCEPT !.Things = u.t]]
               ELSE [err |-> firstErr(a.err, b.err),
                     v |-> [Things |-> u.t, After |-> a.v, Before |-> b.v]]
      [] d.t = "other" -> [err |-> errType, v |-> l]
      [] OTHER -> [err |-> errType, v |-> l]

\* Decoding the data member into the inboxListing l, whose fields are tagged
\* children, after and before.  Members are taken in the order of the wire
\* format (children, after, before).  An absent member leaves its field as
\* it is; a present children member, null included, is handed to
\* inboxThings.UnmarshalJSON, whose error ends the decode at once; a type
\* error of a cursor is kept and returned when the decode is over.
decodeListing(l, d) ==
    CASE d.t = "obj" ->
           LET u == IF d.children.t = "absent"
                    THEN [err |-> ErrNil, t |-> l.Things]
                    ELSE UnmarshalJSON(l.Things, d.children)
               a == decodeString(l.After, d.after)
               b == decodeString(l.Before, d.before)
           IN  IF u.err # ErrNil
               THEN [err |-> u.err, v |-> [l EXCEPT !.Things = u.t]]
               ELSE [err |-> firstErr(a.err, b.err),
                     v |-> [Things |-> u.t, After |-> a.v, Before |-> b.v]]
      [] d.t = "other" -> [err |-> errType, v |-> l]
      [] OTHER -> [err |-> ErrNil, v |-> l]

\* json.NewDecoder(body).Decode(root): text that is no JSON is refused
\* before anything is stored; null stores nothing and is no error.
decodeRoot(root, body) ==
    CASE body.t = "obj" ->
           LET r == decodeListing(root.Data, body.data)
           IN  [err |-> r.err, v |-> [root EXCEPT !.Data = r.v]]
      [] body.t = "null" -> [err |-> ErrNil, v |-> root]
      [] body.t = "syntax" -> [err |-> errSyntax, v |-> root]
      [] OTHER -> [err |-> errType, v |-> root]

\* getComments taking the cursors of the zero listing.
getComments_dropsCursors(l) ==
    [ptr |-> "obj",
     Messages |-> l.Data.Things.Comments,
     After |-> "",
     Before |-> ""]

\* rootInboxListing.getComments
getComments(l) ==
    [ptr |-> "obj",
     Messages |-> l.Data.Things.Comments,
     After |-> l.Data.After,
     Before |-> l.Data.Before]

\* rootInboxListing.getMessages
getMessages(l) ==
    [ptr |-> "obj",
     Messages |-> l.Data.Things.Messages,
     After |-> l.Data.After,
     Before |-> l.Data.Before]

-----------------------------------------------------------------------------
(* The responses the transport may hand back *)

\* Cursor members: absent, null, the empty string, a populated string, a
\* populated string with blanks around it, a value that is no string.
Cursors ==
    {JAbsent, JNull, JStr(""), JStr("t4_a"), JStr(" t4_a "), JOther}

\* Payloads of child envelopes that both kinds are sent with.
Payloads == {PObj("a", "true"), PObj("b", "false"), PBad}

\* Child envelopes: comments and messages with each of these payloads, a
\* comment without was_comment, a comment whose data is null, a message
\* without data, a child of a kind the switch does not know, and an element
\* that is no envelope.
Children ==
    {Env(k, p) : k \in {kindComment, kindMessage}, p \in Payloads}
      \cup {Env(kindComment, PObj("c", "absent")), Env(kindComment, PNull),
            Env(kindMessage, PAbsent), Env("t9", PObj("a", "true")), BadEnv}

\* The sequences over S of length at most n.
SeqsUpTo(S, n) == UNION {[1..k -> S] : k \in 0..n}

ChildrenValues ==
    {CNull, CAbsent, COther}
      \cup {CArr(c) : c \in SeqsUpTo(Children, MaxChildren)}

Bodies ==
    {BSyntax, BNull, BOther, BObj(DAbsent), BObj(DNull), BObj(DOther)}
      \cup {BObj(DObj(c, a, b)) : c \in ChildrenValues, a \in Cursors, b \in Cursors}

\* Errors of the collaborators: addOptions and client.NewRequest when the
\* request is built, client.Do when the exchange fails or the status is
\* no success.
errAddOptions == "addOptions: error"
errNewRequest == "NewRequest: error"
errTransport == "Do: transport error"
errStatus == "Do: error response"
RequestErrors == {errAddOptions, errNewRequest}
DoErrors == {errTransport, errStatus}

-----------------------------------------------------------------------------
(* MessageService *)

VARIABLES
    pc,       \* where each caller is: "idle", "inbox", "do", "ret"
    path,     \* the path of the call in progress or last returned
    opts,     \* the *ListOptions of that call
    req,      \* the request inbox had client.NewRequest make, if any
    collab,   \* the error the failing collaborator gave, ErrNil if none
    body,     \* the response body client.Do read, NoBody if none
    root,     \* what inbox returned: root, resp, err
    resp,
    err,
    invoked,  \* the view accessors the call has invoked
    out,      \* what the call returned to its caller
    heap,     \* the Messages objects the accessors have allocated
    held      \* the pointers each caller holds to the views it was given

\* The state of the listing calls.
callVars ==
    <<pc, path, opts, req, collab, body, root, resp, err, invoked, out,
      heap, held>>

VARIABLES
    call,     \* the last call of a request-building method, and its arguments
    built,    \* the request that call built, NoRequest if it built none
    sent,     \* whether that call handed a request to client.Do
    ret       \* what that call returned: resp, err

\* The state of the methods that only build and send a request.
reqVars == <<call, built, sent, ret>>

VARIABLES
    recv,     \* an inboxThings that json.Unmarshal is applied to repeatedly
    recvHeld, \* how many items recv held when that decode began
    recvIn,   \* the children value of the last decode into recv
    recvErr   \* the error of the last decode into recv

\* The state of the inboxThings decoded into more than once.
recvVars == <<recv, recvHeld, recvIn, recvErr>>

vars == <<callVars, reqVars, recvVars>>

\* A heap cell that holds no object, and the nil pointer.
FreeCell == [ptr |-> "free", Messages |-> NilSlice, After |-> "", Before |-> ""]
NilPtr == 0

\* A nil *ListOptions, and the ListOptions with the given fields.
NilOpts == [nil |-> TRUE, Limit |-> 0, After |-> "", Before |-> ""]
ListOptions(l, a, b) == [nil |-> FALSE, Limit |-> l, After |-> a, Before |-> b]

\* No request: client.NewRequest was not called, or gave an error.  A
\* request has a method, a path, and the parameters of its query and of
\* its form, each a set of <<name, value>>.
NoRequest == [method |-> "", path |-> "", query |-> {}, form |-> {}]
Request(m, pth, q, f) == [method |-> m, path |-> pth, query |-> q, form |-> f]

\* strconv.Itoa of a natural number.
Digit(d) ==
    CASE d = 0 -> "0" [] d = 1 -> "1" [] d = 2 -> "2" [] d = 3 -> "3"
      [] d = 4 -> "4" [] d = 5 -> "5" [] d = 6 -> "6" [] d = 7 -> "7"
      [] d = 8 -> "8" [] d = 9 -> "9"

RECURSIVE Itoa(_)
Itoa(n) == IF n < 10 THEN Digit(n) ELSE Itoa(n \div 10) \o Digit(n % 10)

\* A parameter of a struct field tagged omitempty: left out when the
\* field is the zero value of its type.
omitempty(name, value, isZero) == IF isZero THEN {} ELSE {<<name, value>>}

\* addOptions(path, opts): the path with the options as its query.  A nil
\* opts adds nothing; a field that is zero or empty is left out.
addOptions(pth, o) ==
    [path |-> pth,
     query |-> IF o.nil THEN {}
               ELSE omitempty("limit", Itoa(o.Limit), o.Limit = 0)
                    \cup omitempty("after", o.After, o.After = "")
                    \cup omitempty("before", o.Before, o.Before = "")]

\* inbox making its request from the path alone.
inboxNewRequest_dropsOptions(pth, o) ==
    LET u == addOptions(pth, NilOpts)
    IN  Request("GET", u.path, u.query, {})

\* inbox, the request of a call that got one: addOptions(path, opts), then
\* client.NewRequest(http.MethodGet, path, nil).
inboxNewRequest(pth, o) ==
    LET u == addOptions(pth, o)
    IN  Request("GET", u.path, u.query, {})

\* The pointers of a caller that holds no view.
NoViews == [comments |-> NilPtr, messages |-> NilPtr]

\* Nothing returned yet.
NoReturn ==
    [done |-> FALSE, comments |-> NilView, messages |-> NilView,
     resp |-> NilResp, err |-> ErrNil]

\* No call of the callers P has been made; the heap has room for the two
\* views each of them may hold.
CallsInit(P) ==
    /\ pc = [p \in P |-> "idle"]
    /\ path = [p \in P |-> ""]
    /\ opts = [p \in P |-> NilOpts]
    /\ req = [p \in P |-> NoRequest]
    /\ collab = [p \in P |-> ErrNil]
    /\ body = [p \in P |-> NoBody]
    /\ root = [p \in P |-> NilRoot]
    /\ resp = [p \in P |-> NilResp]
    /\ err = [p \in P |-> ErrNil]
    /\ invoked = [p \in P |-> {}]
    /\ out = [p \in P |-> NoReturn]
    /\ heap = [a \in 1..(2 * Cardinality(P)) |-> FreeCell]
    /\ held = [p \in P |-> NoViews]

\* A caller enters Inbox, InboxUnread or Sent with one of the options O,
\* which calls s.inbox with the endpoint's path and the options.  The
\* caller lets go of the views of its last call, which nothing refers to
\* any more.
EnterWith(p, pth, O) ==
    /\ pc[p] = "idle"
    /\ pc' = [pc EXCEPT ![p] = "inbox"]
    /\ path' = [path EXCEPT ![p] = pth]
    /\ \E o \in O : opts' = [opts EXCEPT ![p] = o]
    /\ req' = [req EXCEPT ![p] = NoRequest]
    /\ collab' = [collab EXCEPT ![p] = ErrNil]
    /\ body' = [body EXCEPT ![p] = NoBody]
    /\ root' = [root EXCEPT ![p] = NilRoot]
    /\ resp' = [resp EXCEPT ![p] = NilResp]
    /\ err' = [err EXCEPT ![p] = ErrNil]
    /\ invoked' = [invoked EXCEPT ![p] = {}]
    /\ out' = [out EXCEPT ![p] = NoReturn]
    /\ heap' = [a \in DOMAIN heap |->
                  IF a \in {held[p].comments, held[p].messages}
                  THEN FreeCell ELSE heap[a]]
    /\ held' = [held EXCEPT ![p] = NoViews]
    /\ UNCHANGED <<reqVars, recvVars>>

\* The call with nil options.
Enter(p, pth) == EnterWith(p, pth, {NilOpts})

Inbox(p) == Enter(p, pathInbox)

InboxUnread(p) == Enter(p, pathUnread)

Sent(p) == Enter(p, pathSent)

\* inbox, first half: addOptions and client.NewRequest.  An error of
\* either is returned as it is, with a nil root and a nil response.
inboxRequest(p) ==
    /\ pc[p] = "inbox"
    /\ \E e \in RequestErrors \cup {ErrNil} :
         /\ collab' = [collab EXCEPT ![p] = e]
         /\ err' = [err EXCEPT ![p] = e]
         /\ pc' = [pc EXCEPT ![p] = IF e = ErrNil THEN "do" ELSE "ret"]
         /\ req' = [req EXCEPT ![p] = IF e = ErrNil
                                      THEN inboxNewRequest(path[p], opts[p])
                                      ELSE NoRequest]
    /\ UNCHANGED <<path, opts, body, root, resp, invoked, out, heap, held>>
    /\ UNCHANGED <<reqVars, recvVars>>

\* client.Do(ctx, req, root) on a response with body b: the body is decoded
\* into root; a decode error is returned with a nil response.
clientDo(r, b) ==
    LET d == decodeRoot(r, b)
    IN  [v |-> d.v,
         resp |-> IF d.err = ErrNil THEN SomeResp ELSE NilResp,
         err |-> d.err]

\* inbox going on as if client.Do had not failed.
inboxResult_swallowsError(r, rsp, e) == [root |-> r, resp |-> rsp, err |-> ErrNil]

\* What inbox returns after client.Do(ctx, req, root) gave (resp, e).
inboxResult(r, rsp, e) ==
    IF e # ErrNil
    THEN [root |-> NilRoot, resp |-> NilResp, err |-> e]
    ELSE [root |-> r, resp |-> rsp, err |-> ErrNil]

\* client.Do failing with an error that is kept in the service, where every
\* call in progress reads it.
inboxDoFails_sharedErr(p) ==
    /\ pc[p] = "do"
    /\ \E e \in DoErrors :
         LET r == inboxResult(ZeroRoot, NilResp, e)
         IN  /\ collab' = [collab EXCEPT ![p] = e]
             /\ root' = [root EXCEPT ![p] = r.root]
             /\ resp' = [resp EXCEPT ![p] = r.resp]
             /\ err' = [q \in DOMAIN err |-> r.err]
    /\ pc' = [pc EXCEPT ![p] = "ret"]
    /\ UNCHANGED <<path, opts, req, body, invoked, out, heap, held>>
    /\ UNCHANGED <<reqVars, recvVars>>

\* client.Do fails before a body is decoded.
inboxDoFails(p) ==
    /\ pc[p] = "do"
    /\ \E e \in DoErrors :
         LET r == inboxResult(ZeroRoot, NilResp, e)
         IN  /\ collab' = [collab EXCEPT ![p] = e]
             /\ root' = [root EXCEPT ![p] = r.root]
             /\ resp' = [resp EXCEPT ![p] = r.resp]
             /\ err' = [err EXCEPT ![p] = r.err]
    /\ pc' = [pc EXCEPT ![p] = "ret"]
    /\ UNCHANGED <<path, opts, req, body, invoked, out, heap, held>>
    /\ UNCHANGED <<reqVars, recvVars>>

\* The decode into one rootInboxListing kept in the service, which every
\* call in progress reads, instead of a new one.
inboxDoDecodesFrom_sharedRoot(p, B) ==
    /\ pc[p] = "do"
    /\ \E b \in B :
         LET d == clientDo(ZeroRoot, b)
             r == inboxResult(d.v, d.resp, d.err)
         IN  /\ collab' = [collab EXCEPT ![p] = d.err]
             /\ body' = [body EXCEPT ![p] = b]
             /\ root' = [q \in DOMAIN root |-> r.root]
             /\ resp' = [resp EXCEPT ![p] = r.resp]
             /\ err' = [err EXCEPT ![p] = r.err]
    /\ pc' = [pc EXCEPT ![p] = "ret"]
    /\ UNCHANGED <<path, opts, req, invoked, out, heap, held>>
    /\ UNCHANGED <<reqVars, recvVars>>

\* client.Do reads a body, one of B, and decodes it into
\* root = new(rootInboxListing).
inboxDoDecodesFrom(p, B) ==
    /\ pc[p] = "do"
    /\ \E b \in B :
         LET d == clientDo(ZeroRoot, b)
             r == inboxResult(d.v, d.resp, d.err)
         IN  /\ collab' = [collab EXCEPT ![p] = d.err]
             /\ body' = [body EXCEPT ![p] = b]
             /\ root' = [root EXCEPT ![p] = r.root]
             /\ resp' = [resp EXCEPT ![p] = r.resp]
             /\ err' = [err EXCEPT ![p] = r.err]
    /\ pc' = [pc EXCEPT ![p] = "ret"]
    /\ UNCHANGED <<path, opts, req, invoked, out, heap, held>>
    /\ UNCHANGED <<reqVars, recvVars>>

inboxDoDecodes(p) == inboxDoDecodesFrom(p, Bodies)

\* The tail of Inbox building the views whatever inbox returned.
returnInbox_ignoresError(r, rsp, e) ==
    [done |-> TRUE, comments |-> getComments(r), messages |-> getMessages(r),
     resp |-> rsp, err |-> e]

\* The tail of Inbox and of InboxUnread.
returnInbox(r, rsp, e) ==
    IF e # ErrNil
    THEN [done |-> TRUE, comments |-> NilView, messages |-> NilView,
          resp |-> rsp, err |-> e]
    ELSE [done |-> TRUE, comments |-> getComments(r), messages |-> getMessages(r),
          resp |-> rsp, err |-> ErrNil]

\* The tail of Sent returning the comment bucket as its view.
returnSent_returnsComments(r, rsp, e) ==
    IF e # ErrNil
    THEN [done |-> TRUE, comments |-> NilView, messages |-> NilView,
          resp |-> rsp, err |-> e]
    ELSE [done |-> TRUE, comments |-> NilView, messages |-> getComments(r),
          resp |-> rsp, err |-> ErrNil]

\* The tail of Sent, which returns no comment view.
returnSent(r, rsp, e) ==
    IF e # ErrNil
    THEN [done |-> TRUE, comments |-> NilView, messages |-> NilView,
          resp |-> rsp, err |-> e]
    ELSE [done |-> TRUE, comments |-> NilView, messages |-> getMessages(r),
          resp |-> rsp, err |-> ErrNil]

\* The accessors each tail invokes.
invokedByInbox(e) == IF e # ErrNil THEN {} ELSE {"getComments", "getMessages"}
invokedBySent(e) == IF e # ErrNil THEN {} ELSE {"getMessages"}

\* The cells of the heap h that hold no object.
FreeCells(h) == {a \in DOMAIN h : h[a] = FreeCell}

\* The n lowest addresses of the set A, in order.
RECURSIVE Lowest(_, _)
Lowest(A, n) ==
    IF n = 0 \/ A = {} THEN <<>>
    ELSE LET a == CHOOSE x \in A : \A y \in A : x <= y
         IN  <<a>> \o Lowest(A \ {a}, n - 1)

\* The accessors handing out the Messages objects of a cache of the service.
newViews_cached(h, n) == [i \in 1..n |-> i]

\* &Messages{...} in getComments and getMessages: each view is a newly
\* allocated object; n of them take n cells no object is in.
newViews(h, n) == Lowest(FreeCells(h), n)

\* The views a tail returns are put on the heap and their addresses given
\* to the caller: comments and messages by Inbox and InboxUnread, messages
\* by Sent, nothing with an error.
storeViews(p, o) ==
    LET want == (IF o.comments.ptr = "obj" THEN <<"comments">> ELSE <<>>)
                  \o (IF o.messages.ptr = "obj" THEN <<"messages">> ELSE <<>>)
        at == newViews(heap, Len(want))
        ptrOf(f) == IF \E i \in 1..Len(want) : want[i] = f
                    THEN at[CHOOSE i \in 1..Len(want) : want[i] = f]
                    ELSE NilPtr
    IN  /\ held' = [held EXCEPT ![p] =
                      [comments |-> ptrOf("comments"), messages |-> ptrOf("messages")]]
        /\ heap' = [a \in DOMAIN heap |->
                      CASE a = ptrOf("messages") -> o.messages
                        [] a = ptrOf("comments") -> o.comments
                        [] OTHER -> heap[a]]

ReturnInbox(p) ==
    /\ pc[p] = "ret"
    /\ path[p] \in {pathInbox, pathUnread}
    /\ out' = [out EXCEPT ![p] = returnInbox(root[p], resp[p], err[p])]
    /\ invoked' = [invoked EXCEPT ![p] = invokedByInbox(err[p])]
    /\ storeViews(p, returnInbox(root[p], resp[p], err[p]))
    /\ pc' = [pc EXCEPT ![p] = "idle"]
    /\ UNCHANGED <<path, opts, req, collab, body, root, resp, err>>
    /\ UNCHANGED <<reqVars, recvVars>>

ReturnSent(p) ==
    /\ pc[p] = "ret"
    /\ path[p] = pathSent
    /\ out' = [out EXCEPT ![p] = returnSent(root[p], resp[p], err[p])]
    /\ invoked' = [invoked EXCEPT ![p] = invokedBySent(err[p])]
    /\ storeViews(p, returnSent(root[p], resp[p], err[p]))
    /\ pc' = [pc EXCEPT ![p] = "idle"]
    /\ UNCHANGED <<path, opts, req, collab, body, root, resp, err>>
    /\ UNCHANGED <<reqVars, recvVars>>

\* No request-building method has been called.
NoCall == [op |-> "", arg |-> <<>>]
NoResult == [resp |-> NilResp, err |-> ErrNil]
ReqInit ==
    /\ call = NoCall
    /\ built = NoRequest
    /\ sent = FALSE
    /\ ret = NoResult

\* The inboxThings is the zero value: nothing has been decoded into it.
RecvInit ==
    /\ recv = ZeroThings
    /\ recvHeld = 0
    /\ recvIn = CAbsent
    /\ recvErr = ErrNil

Init == CallsInit(Procs) /\ ReqInit /\ RecvInit

Next ==
    \E p \in Procs :
        \/ Inbox(p)
        \/ InboxUnread(p)
        \/ Sent(p)
        \/ inboxRequest(p)
        \/ inboxDoFails(p)
        \/ inboxDoDecodes(p)
        \/ ReturnInbox(p)
        \/ ReturnSent(p)

Spec == Init /\ [][Next]_vars

-----------------------------------------------------------------------------
(* Two callers at once *)

\* Two goroutines that call the service concurrently.
TwoCallers == {1, 2}

\* The bodies their responses hold: two listings that differ in every
\* part, an envelope without data, and one whose children is no array.
FewBodies ==
    {BObj(DObj(CArr(<<Env(kindComment, PObj("a", "true")),
                      Env(kindMessage, PObj("b", "false"))>>),
               JStr("t4_a"), JStr(""))),
     BObj(DObj(CArr(<<Env(kindMessage, PObj("a", "true"))>>),
               JAbsent, JStr(" t4_a "))),
     BObj(DAbsent),
     BObj(DObj(COther, JAbsent, JAbsent))}

CallsInit2 == CallsInit(TwoCallers) /\ ReqInit /\ RecvInit

CallsNext ==
    \E p \in TwoCallers :
        \/ Inbox(p)
        \/ InboxUnread(p)
        \/ Sent(p)
        \/ inboxRequest(p)
        \/ inboxDoFails(p)
        \/ inboxDoDecodesFrom(p, FewBodies)
        \/ ReturnInbox(p)
        \/ ReturnSent(p)

SpecCalls == CallsInit2 /\ [][CallsNext]_vars

-----------------------------------------------------------------------------
(* Listing calls with options *)

\* The options of a listing call: nil, or a ListOptions with each field
\* zero or set.
Limits == {0, 10}
Afters == {"", "testafter"}
Befores == {"", "testbefore"}
AllOptions ==
    {NilOpts} \cup
    {ListOptions(l, a, b) : l \in Limits, a \in Afters, b \in Befores}

Subreddits == {"test"}

\* What client.Do(ctx, req, nil) may return.
DoResults ==
    {[resp |-> SomeResp, err |-> ErrNil], [resp |-> NilResp, err |-> errTransport]}

\* A method that returns before it asks for a request.
rejects(c, e) ==
    /\ call' = c
    /\ built' = NoRequest
    /\ sent' = FALSE
    /\ ret' = [resp |-> NilResp, err |-> e]

\* A method that has client.NewRequest make the request r, returns its
\* error if it gives one, and else returns what client.Do returns.
requests(c, r) ==
    /\ call' = c
    /\ \/ rejects(c, errNewRequest)
       \/ /\ built' = r
          /\ sent' = TRUE
          /\ \E d \in DoResults : ret' = d

InboxWith(p) == EnterWith(p, pathInbox, AllOptions)

InboxUnreadWith(p) == EnterWith(p, pathUnread, AllOptions)

SentWith(p) == EnterWith(p, pathSent, AllOptions)

\* The path of a listing of a subreddit, as the server sees it.
aboutPath(sr, what) == "/r/" \o sr \o "/about/" \o what

\* SubredditService.Banned and Muted: a GET of the listing's path with
\* the options as its query.
about(what, sr, o) ==
    LET u == addOptions(aboutPath(sr, what), o)
    IN  /\ requests([op |-> what, arg |-> <<sr, o>>],
                    Request("GET", u.path, u.query, {}))
        /\ UNCHANGED <<callVars, recvVars>>

Banned == \E sr \in Subreddits, o \in AllOptions : about("banned", sr, o)

Muted == \E sr \in Subreddits, o \in AllOptions : about("muted", sr, o)

ListingNext ==
    \/ \E p \in Procs :
        \/ InboxWith(p)
        \/ InboxUnreadWith(p)
        \/ SentWith(p)
        \/ inboxRequest(p)
        \/ inboxDoFails(p)
        \/ inboxDoDecodesFrom(p, FewBodies)
        \/ ReturnInbox(p)
        \/ ReturnSent(p)
    \/ Banned
    \/ Muted

SpecListing == Init /\ [][ListingNext]_vars

-----------------------------------------------------------------------------
(* Methods that only build and send a request *)

\* The most ids a call is given.
MaxIds == 2

IDs == {"t4_a", "t4_b"}
IDLists == SeqsUpTo(IDs, MaxIds)

errNoIDs == "must provide at least 1 id"
errNilSendRequest == "sendRequest: cannot be nil"

\* strings.Join(ids, sep)
RECURSIVE Join(_, _)
Join(ids, sep) ==
    IF Len(ids) = 0 THEN ""
    ELSE IF Len(ids) = 1 THEN ids[1]
    ELSE ids[1] \o sep \o Join(Tail(ids), sep)

\* The form of a method that names things by their full ids.
idForm(id) == {<<"id", id>>}

\* ReadAll
ReadAll ==
    /\ requests([op |-> "ReadAll", arg |-> <<>>],
                Request("POST", "api/read_all_messages", {}, {}))
    /\ UNCHANGED <<callVars, recvVars>>

\* A method of ids that sends whatever it is given.
withIDs_sendsNone(op, pth, ids) ==
    requests([op |-> op, arg |-> ids],
             Request("POST", pth, {}, idForm(Join(ids, ","))))

\* Read, Unread, Collapse and Uncollapse: no ids is an error; else the
\* ids are joined by commas into the form of a POST.
withIDs(op, pth, ids) ==
    IF Len(ids) = 0
    THEN rejects([op |-> op, arg |-> ids], errNoIDs)
    ELSE requests([op |-> op, arg |-> ids],
                  Request("POST", pth, {}, idForm(Join(ids, ","))))

Read ==
    /\ \E ids \in IDLists : withIDs("Read", "api/read_message", ids)
    /\ UNCHANGED <<callVars, recvVars>>

Unread ==
    /\ \E ids \in IDLists : withIDs("Unread", "api/unread_message", ids)
    /\ UNCHANGED <<callVars, recvVars>>

Collapse ==
    /\ \E ids \in IDLists : withIDs("Collapse", "api/collapse_message", ids)
    /\ UNCHANGED <<callVars, recvVars>>

Uncollapse ==
    /\ \E ids \in IDLists : withIDs("Uncollapse", "api/uncollapse_message", ids)
    /\ UNCHANGED <<callVars, recvVars>>

\* Block and Delete take one id, which they do not inspect.
withID(op, pth, id) ==
    requests([op |-> op, arg |-> <<id>>], Request("POST", pth, {}, idForm(id)))

Block ==
    /\ \E id \in IDs \cup {""} : withID("Block", "api/block", id)
    /\ UNCHANGED <<callVars, recvVars>>

Delete ==
    /\ \E id \in IDs \cup {""} : withID("Delete", "api/del_msg", id)
    /\ UNCHANGED <<callVars, recvVars>>

\* A nil *SendMessageRequest, and the requests Send is given.
NilSendRequest ==
    [nil |-> TRUE, To |-> "", Subject |-> "", Text |-> "", FromSubreddit |-> ""]
SendMessageRequest(to, subject, text, from) ==
    [nil |-> FALSE, To |-> to, Subject |-> subject, Text |-> text,
     FromSubreddit |-> from]
SendRequests ==
    {NilSendRequest} \cup
    {SendMessageRequest(to, "hi", text, from) :
        to \in {"", "user"}, text \in {"", "hello"}, from \in {"", "test"}}

\* query.Values(sendRequest), with api_type set to json.
sendForm(m) ==
    {<<"to", m.To>>, <<"subject", m.Subject>>, <<"text", m.Text>>}
    \cup omitempty("from_sr", m.FromSubreddit, m.FromSubreddit = "")
    \cup {<<"api_type", "json">>}

\* Send: a nil request is an error; else its fields are the form of a POST.
send(m) ==
    IF m.nil
    THEN rejects([op |-> "Send", arg |-> m], errNilSendRequest)
    ELSE requests([op |-> "Send", arg |-> m],
                  Request("POST", "api/compose", {}, sendForm(m)))

Send ==
    /\ \E m \in SendRequests : send(m)
    /\ UNCHANGED <<callVars, recvVars>>

\* The subreddit arguments of a search: none, one name, names joined by +.
SearchIn == {"", "test", "test+golang+nba"}
Queries == {"test", "golang"}

\* A search that is restricted whatever its subreddit argument is.
searchRequest_alwaysRestricts(q, sr) ==
    Request("GET", "/r/" \o (IF sr = "" THEN "all" ELSE sr) \o "/search",
            {<<"q", q>>, <<"restrict_sr", "true">>}, {})

\* The request of SubredditService.SearchPosts(ctx, q, sr, nil): r/all when
\* no subreddit is given, else the subreddits given and a search that is
\* restricted to them.
searchRequest(q, sr) ==
    Request("GET", "/r/" \o (IF sr = "" THEN "all" ELSE sr) \o "/search",
            {<<"q", q>>} \cup omitempty("restrict_sr", "true", sr = ""), {})

SearchPosts ==
    /\ \E q \in Queries, sr \in SearchIn :
         requests([op |-> "SearchPosts", arg |-> <<q, sr>>], searchRequest(q, sr))
    /\ UNCHANGED <<callVars, recvVars>>

RequestsNext ==
    \/ ReadAll
    \/ Read
    \/ Unread
    \/ Block
    \/ Collapse
    \/ Uncollapse
    \/ Delete
    \/ Send
    \/ SearchPosts

SpecRequests == Init /\ [][RequestsNext]_vars

-----------------------------------------------------------------------------
(* An inboxThings decoded into more than once *)

\* The child envelopes of these decodes.
RecvChildren ==
    {Env(k, p) : k \in {kindComment, kindMessage},
                 p \in {PObj("a", "true"), PObj("b", "false")}}
      \cup {Env(kindMessage, PBad), Env("t9", PObj("a", "true")), BadEnv}

\* The children values json.Unmarshal calls UnmarshalJSON with: a member
\* that is absent does not reach it.
RecvValues ==
    {CNull, COther} \cup {CArr(c) : c \in SeqsUpTo(RecvChildren, MaxChildren)}

\* json.Unmarshal of a children value into the inboxThings, which keeps
\* what UnmarshalJSON left in it whether or not it returned an error.
UnmarshalAgain ==
    /\ \E c \in RecvValues :
         LET r == UnmarshalJSON(recv, c)
         IN  /\ recv' = r.t
             /\ recvErr' = r.err
             /\ recvIn' = c
    /\ recvHeld' = Len(recv.Comments.elems) + Len(recv.Messages.elems)
    /\ UNCHANGED <<callVars, reqVars>>

ThingsNext == UnmarshalAgain

SpecThings == Init /\ [][ThingsNext]_vars

-----------------------------------------------------------------------------
(* Properties *)

\* The body is a listing: an object whose data is an object whose children
\* is an array.
IsListing(b) == b.t = "obj" /\ b.data.t = "obj" /\ b.data.children.t = "arr"

\* Every element of the children array c is an envelope.
AllEnvelopes(c) == \A i \in 1..Len(c) : c[i].t = "obj"

\* The payload unmarshals into a Message: an object of the right shape, or null.
Decodes(pl) == pl.t \in {"obj", "null"}

\* The child is an envelope of the given kind whose payload decodes.
Matches(e, kind) == e.t = "obj" /\ e.kind = kind /\ Decodes(e.data)

\* The children of kind `kind` that decode, in the order of the array.
Matching(c, kind) == SelectSeq(c, LAMBDA e : Matches(e, kind))

\* The ids of a sequence of envelopes, and of the items of a bucket.
EnvIDs(es) == [i \in 1..Len(es) |-> es[i].data.id]
BucketIDs(b) == [i \in 1..Len(b.elems) |-> b.elems[i].ID]

\* The call of p has decoded a body into a root that inbox returned.
Decoded(p) == pc[p] \in {"ret", "idle"} /\ root[p].ptr = "obj"

\* The call of p has returned without error.
ReturnedOK(p) == out[p].done /\ out[p].err = ErrNil

\* C1: for every listing payload, the bucket of each recognized kind
\* (t1 comment, t4 message) holds exactly the children of that kind whose
\* payload decodes, in the order they have in the children array.
C1_BucketsExactInOrder ==
    \A p \in Procs :
        (Decoded(p) /\ IsListing(body[p])) =>
            LET c == body[p].data.children.elems
                t == root[p].Data.Things
            IN  /\ BucketIDs(t.Comments) = EnvIDs(Matching(c, "t1"))
                /\ BucketIDs(t.Messages) = EnvIDs(Matching(c, "t4"))

\* C1 witness: a decoded listing one of whose buckets holds two different
\* items.
C1_Witness ==
    \E p \in Procs :
        /\ Decoded(p) /\ IsListing(body[p])
        /\ LET b == root[p].Data.Things.Comments.elems
           IN  Len(b) >= 2 /\ b[1].ID # b[2].ID

\* The child is dropped: its kind is not recognized, or its payload fails
\* to decode.
Dropped(e) == e.t = "obj" /\ ~(Matches(e, "t1") \/ Matches(e, "t4"))

\* The body is a listing of envelopes, at least one of which is dropped,
\* and nothing but its items is wrong with it.
HasBadItem(b) ==
    /\ IsListing(b)
    /\ AllEnvelopes(b.data.children.elems)
    /\ \E i \in 1..Len(b.data.children.elems) : Dropped(b.data.children.elems[i])
    /\ b.data.after.t # "other" /\ b.data.before.t # "other"

\* C2: a listing with a child of unrecognized kind, or a child of
\* recognized kind whose payload does not decode, decodes without error,
\* and every other child is in its bucket: the failure of an item is never
\* returned as an error.
C2_BadItemIsNoError ==
    \A p \in Procs :
        (pc[p] \in {"ret", "idle"} /\ HasBadItem(body[p])) =>
            LET c == body[p].data.children.elems
                t == root[p].Data.Things
            IN  /\ err[p] = ErrNil
                /\ root[p].ptr = "obj"
                /\ out[p].done => out[p].err = ErrNil
                /\ \A i \in 1..Len(c) :
                     /\ Matches(c[i], "t1") =>
                          \E j \in 1..Len(t.Comments.elems) :
                              t.Comments.elems[j].ID = c[i].data.id
                     /\ Matches(c[i], "t4") =>
                          \E j \in 1..Len(t.Messages.elems) :
                              t.Messages.elems[j].ID = c[i].data.id
                /\ Len(t.Comments.elems) + Len(t.Messages.elems)
                     = Cardinality({i \in 1..Len(c) : ~Dropped(c[i])})

\* C2 witness: a returned call whose listing held a comment whose payload
\* does not decode next to a child that was kept.
C2_Witness ==
    \E p \in Procs :
        /\ out[p].done /\ HasBadItem(body[p])
        /\ LET c == body[p].data.children.elems
           IN  /\ \E i \in 1..Len(c) : c[i].kind = "t1" /\ ~Decodes(c[i].data)
               /\ \E i \in 1..Len(c) : ~Dropped(c[i])

\* The cursor member w was received as a string.
IsString(w) == w.t = "str"

\* C3: the comment view and the message view of one decoded inbox listing
\* carry the same After and the same Before, and each is the value the
\* outer envelope holds, the empty string included, whatever the children.
C3_ViewsShareCursors ==
    \A p \in Procs :
        (ReturnedOK(p) /\ path[p] \in {"message/inbox", "message/unread"}) =>
            /\ out[p].comments.ptr = "obj" /\ out[p].messages.ptr = "obj"
            /\ out[p].comments.After = out[p].messages.After
            /\ out[p].comments.Before = out[p].messages.Before
            /\ (body[p].t = "obj" /\ body[p].data.t = "obj") =>
                 /\ IsString(body[p].data.after) =>
                      out[p].comments.After = body[p].data.after.s
                 /\ IsString(body[p].data.before) =>
                      out[p].messages.Before = body[p].data.before.s

\* C3 witness: Inbox returned two views of a listing with a populated
\* after, an empty before and an item in each bucket.
C3_Witness ==
    \E p \in Procs :
        /\ ReturnedOK(p) /\ path[p] = "message/inbox"
        /\ IsListing(body[p])
        /\ body[p].data.after = JStr("t4_a") /\ body[p].data.before = JStr("")
        /\ Len(out[p].comments.Messages.elems) = 1
        /\ Len(out[p].messages.Messages.elems) = 1

\* C4: when the children array is empty, the comment bucket and the
\* message bucket are both empty and not nil.
C4_EmptyChildrenEmptyBuckets ==
    \A p \in Procs :
        (Decoded(p) /\ IsListing(body[p]) /\ body[p].data.children.elems = <<>>) =>
            LET t == root[p].Data.Things
            IN  /\ ~t.Comments.nil /\ t.Comments.elems = <<>>
                /\ ~t.Messages.nil /\ t.Messages.elems = <<>>
                /\ ReturnedOK(p) =>
                     /\ ~out[p].messages.Messages.nil
                     /\ out[p].messages.Messages.elems = <<>>

\* C4 witness: Inbox returned the views of a listing without children.
C4_Witness ==
    \E p \in Procs :
        /\ ReturnedOK(p) /\ path[p] = "message/inbox"
        /\ IsListing(body[p]) /\ body[p].data.children.elems = <<>>

-----------------------------------------------------------------------------

BucketFlags(b) == [i \in 1..Len(b.elems) |-> b.elems[i].IsComment]
EnvFlags(es) == [i \in 1..Len(es) |-> es[i].data.wc = "true"]

\* C6, as claimed: every item of the comment bucket has IsComment true and
\* every item of the message bucket has IsComment false.
C6_FlagFollowsKind ==
    \A p \in Procs :
        (Decoded(p) /\ IsListing(body[p])) =>
            LET t == root[p].Data.Things
            IN  /\ \A i \in 1..Len(t.Comments.elems) : t.Comments.elems[i].IsComment
                /\ \A i \in 1..Len(t.Messages.elems) : ~t.Messages.elems[i].IsComment

\* C6, amended: the IsComment flag of a decoded item is the was_comment
\* member of its payload (false when the member is absent or the payload
\* is null), in whichever bucket its kind put it.
C6_FlagFollowsPayload ==
    \A p \in Procs :
        (Decoded(p) /\ IsListing(body[p])) =>
            LET c == body[p].data.children.elems
                t == root[p].Data.Things
            IN  /\ BucketFlags(t.Comments) = EnvFlags(Matching(c, "t1"))
                /\ BucketFlags(t.Messages) = EnvFlags(Matching(c, "t4"))

\* C6 witness: the comment bucket holds an item sent with was_comment
\* false, and the message bucket one sent with was_comment true.
C6_Witness ==
    \E p \in Procs :
        /\ Decoded(p) /\ IsListing(body[p])
        /\ body[p].data.children.elems
             = <<Env("t1", PObj("b", "false")), Env("t4", PObj("a", "true"))>>
        /\ Len(root[p].Data.Things.Comments.elems) = 1
        /\ Len(root[p].Data.Things.Messages.elems) = 1

\* What a call that returned an error gave its caller: no view at all.
NoViewReturned(p) ==
    /\ out[p].err # ErrNil
    /\ out[p].comments = NilView
    /\ out[p].messages = NilView
    /\ invoked[p] = {}

\* The body is no JSON, or is a value of another type where an object or
\* an array is expected.
WrongType(b) ==
    \/ b.t \in {"syntax", "other"}
    \/ b.t = "obj" /\ b.data.t = "other"
    \/ b.t = "obj" /\ b.data.t = "obj" /\ b.data.children.t = "other"

\* The children member is there and is not an array: another type, or null.
ChildrenNotArray(b) ==
    b.t = "obj" /\ b.data.t = "obj" /\ b.data.children.t \in {"other", "null"}

\* C7, as claimed: when the outer envelope is structurally invalid or its
\* children value is not an array, the call returns an error and no view.
C7_NotArrayIsError ==
    \A p \in Procs :
        (out[p].done /\ (WrongType(body[p]) \/ ChildrenNotArray(body[p]))) =>
            NoViewReturned(p)

\* C7, amended: when the body is no JSON, or the body, its data or its
\* children is a value of another type than the one expected and is not
\* null, the call returns the decode error and no view; and whenever a
\* call returns an error, every view it returns is nil.
C7_InvalidEnvelopeNoView ==
    \A p \in Procs :
        out[p].done =>
            /\ WrongType(body[p]) =>
                 /\ NoViewReturned(p)
                 /\ out[p].err \in {errSyntax, errType}
                 /\ out[p].resp = NilResp
            /\ out[p].err # ErrNil => NoViewReturned(p)

\* C7 witness: Inbox returned after a body whose children is no array.
C7_Witness ==
    \E p \in Procs :
        /\ out[p].done /\ path[p] = "message/inbox"
        /\ body[p].t = "obj" /\ body[p].data.t = "obj"
        /\ body[p].data.children = COther
        /\ out[p].err # ErrNil

\* The body is an object without data, or its data is an object without
\* children.
MissingField(b) ==
    /\ b.t = "obj"
    /\ \/ b.data.t = "absent"
       \/ b.data.t = "obj" /\ b.data.children.t = "absent"

\* C8, as claimed: a well-formed envelope without data, or whose data has
\* no children, makes the call fail with an error.
C8_MissingFieldIsError ==
    \A p \in Procs :
        (out[p].done /\ MissingField(body[p])) => out[p].err # ErrNil

\* C8, amended: a missing data or children member is no error.  When the
\* members that are there have the expected type, the call returns views
\* without items, and with empty cursors when data is missing.
C8_MissingFieldIsAccepted ==
    \A p \in Procs :
        (/\ out[p].done
         /\ MissingField(body[p])
         /\ body[p].data.after.t # "other"
         /\ body[p].data.before.t # "other") =>
            /\ out[p].err = ErrNil
            /\ out[p].messages.ptr = "obj"
            /\ out[p].messages.Messages.elems = <<>>
            /\ body[p].data.t = "absent" =>
                 out[p].messages.After = "" /\ out[p].messages.Before = ""

\* C8 witness: a call returned after a body without data, and one after a
\* body whose data has cursors and no children.
C8_Witness ==
    \E p \in Procs :
        /\ out[p].done
        /\ \/ body[p] = BObj(DAbsent)
           \/ body[p] = BObj(DObj(CAbsent, JStr("t4_a"), JStr("")))
        /\ out[p].err = ErrNil

\* C9: when building the request or client.Do returns an error, the call
\* returns that error as it is, with nil views, and invokes neither
\* getComments nor getMessages; when the transport fails, nothing is decoded.
C9_TransportErrorUnchanged ==
    \A p \in Procs :
        /\ (out[p].done /\ collab[p] # ErrNil) =>
               /\ out[p].err = collab[p]
               /\ out[p].comments = NilView
               /\ out[p].messages = NilView
               /\ out[p].resp = NilResp
               /\ invoked[p] = {}
        /\ (pc[p] \in {"ret", "idle"} /\ collab[p] \in RequestErrors \cup DoErrors) =>
               /\ body[p] = NoBody
               /\ root[p] = NilRoot
               /\ err[p] = collab[p]

\* C9 witness: a call returned after client.Do failed.
C9_Witness ==
    \E p \in Procs : out[p].done /\ collab[p] = errTransport

\* How a cursor was received: not at all (absent or null), as the empty
\* string, or as a populated string.
Received(w) ==
    CASE w.t \in {"absent", "null"} -> "none"
      [] w.t = "str" /\ w.s = "" -> "empty"
      [] w.t = "str" -> "populated"
      [] OTHER -> "other"

\* C10, as claimed: cursors received in different states (none, empty,
\* populated) never decode to the same value, and a populated cursor is
\* returned as received.
C10_CursorStatesDistinct ==
    \A p \in Procs :
        (ReturnedOK(p) /\ body[p].t = "obj" /\ body[p].data.t = "obj") =>
            LET a == body[p].data.after
                b == body[p].data.before
                v == out[p].messages
            IN  /\ Received(a) # Received(b) => v.After # v.Before
                /\ Received(a) = "populated" => v.After = a.s
                /\ Received(b) = "populated" => v.Before = b.s

\* C10, amended: a populated cursor is returned exactly as received and
\* never decodes to the value of a cursor received in another state; a
\* cursor that is absent, null or the empty string decodes to the empty
\* string.
C10_PopulatedCursorKept ==
    \A p \in Procs :
        (ReturnedOK(p) /\ body[p].t = "obj" /\ body[p].data.t = "obj") =>
            LET a == body[p].data.after
                b == body[p].data.before
                v == out[p].messages
            IN  /\ Received(a) = "populated" => v.After = a.s
                /\ Received(b) = "populated" => v.Before = b.s
                /\ Received(a) \in {"none", "empty"} => v.After = ""
                /\ Received(b) \in {"none", "empty"} => v.Before = ""
                /\ (Received(a) = "populated" /\ Received(b) # "populated") =>
                     v.After # v.Before

\* C10 witness: a call returned a view of a listing whose after has blanks
\* around it and whose before is null.
C10_Witness ==
    \E p \in Procs :
        /\ ReturnedOK(p)
        /\ body[p].t = "obj" /\ body[p].data.t = "obj"
        /\ body[p].data.after = JStr(" t4_a ")
        /\ body[p].data.before = JNull
        /\ out[p].messages.ptr = "obj"

-----------------------------------------------------------------------------

\* The children of c whose kind is `kind`, whatever their payload.
OfKind(c, kind) == {i \in 1..Len(c) : c[i].t = "obj" /\ c[i].kind = kind}

\* C16: routing goes by the kind tag alone and is exclusive.  The comment
\* bucket takes items only from children of the comment kind and the
\* message bucket only from children of the message kind, at most one item
\* a child; a child of another kind is in neither, so the two buckets
\* together never hold more items than there are children.
C16_RoutingExclusive ==
    \A p \in Procs :
        (Decoded(p) /\ IsListing(body[p])) =>
            LET c == body[p].data.children.elems
                t == root[p].Data.Things
            IN  /\ Len(t.Comments.elems) <= Cardinality(OfKind(c, "t1"))
                /\ Len(t.Messages.elems) <= Cardinality(OfKind(c, "t4"))
                /\ Len(t.Comments.elems) + Len(t.Messages.elems) <= Len(c)
                /\ (OfKind(c, "t1") = {}) => t.Comments.elems = <<>>
                /\ (OfKind(c, "t4") = {}) => t.Messages.elems = <<>>

\* C16 witness: a decoded listing of a comment and a child of another
\* kind, with one item in the comment bucket and none in the other.
C16_Witness ==
    \E p \in Procs :
        /\ Decoded(p) /\ IsListing(body[p])
        /\ LET c == body[p].data.children.elems
           IN  /\ Len(c) = 2
               /\ OfKind(c, "t1") # {} /\ OfKind(c, "t9") # {}
        /\ Len(root[p].Data.Things.Comments.elems) = 1
        /\ root[p].Data.Things.Messages.elems = <<>>

\* C17: Sent returns the message bucket only.  No comment of the response
\* is in the view it returns, and the view's After and Before are those
\* the outer envelope decoded to.
C17_SentReturnsMessagesOnly ==
    \A p \in Procs :
        (ReturnedOK(p) /\ path[p] = "message/sent") =>
            /\ out[p].comments = NilView
            /\ out[p].messages.ptr = "obj"
            /\ invoked[p] = {"getMessages"}
            /\ out[p].messages.After = root[p].Data.After
            /\ out[p].messages.Before = root[p].Data.Before
            /\ IsListing(body[p]) =>
                 /\ BucketIDs(out[p].messages.Messages)
                      = EnvIDs(Matching(body[p].data.children.elems, "t4"))
                 /\ BucketFlags(out[p].messages.Messages)
                      = EnvFlags(Matching(body[p].data.children.elems, "t4"))
                 /\ IsString(body[p].data.after) =>
                      out[p].messages.After = body[p].data.after.s
                 /\ IsString(body[p].data.before) =>
                      out[p].messages.Before = body[p].data.before.s

\* C17 witness: Sent returned after a response that held a comment and a
\* message, with a populated after.
C17_Witness ==
    \E p \in Procs :
        /\ ReturnedOK(p) /\ path[p] = "message/sent"
        /\ IsListing(body[p])
        /\ body[p].data.children.elems
             = <<Env("t1", PObj("a", "true")), Env("t4", PObj("b", "false"))>>
        /\ body[p].data.after = JStr("t4_a")
        /\ Len(out[p].messages.Messages.elems) = 1

-----------------------------------------------------------------------------
(* Properties of two callers, under SpecCalls *)

\* The callers of the specification at hand.
Callers == DOMAIN pc

\* The view a pointer of a caller leads to.
Deref(a) == IF a = NilPtr THEN NilView ELSE heap[a]

C13_SnapshotKept ==
    \A p \in Callers :
        (pc[p] = "idle" /\ out[p].done) =>
            /\ Deref(held[p].comments) = out[p].comments
            /\ Deref(held[p].messages) = out[p].messages
            /\ \A q \in Callers \ {p} :
                 \A a \in {held[p].comments, held[p].messages} \ {NilPtr} :
                     a \notin {held[q].comments, held[q].messages}

\* C13 witness: caller 1 holds the two views of a listing in the first two
\* cells of the heap, and caller 2 has since been given the views of
\* another listing.
C13_Witness ==
    /\ Callers = {1, 2}
    /\ pc[1] = "idle" /\ ReturnedOK(1) /\ ReturnedOK(2)
    /\ held[1] = [comments |-> 1, messages |-> 2]
    /\ held[2] = [comments |-> 3, messages |-> 4]
    /\ IsListing(body[1]) /\ IsListing(body[2]) /\ body[1] # body[2]
    /\ Len(heap[2].Messages.elems) = 1

\* What the call of p returns when it runs alone: the result of the steps
\* of one call on the path, the collaborator error and the body p was given.
Alone(p) ==
    LET d == IF collab[p] \in RequestErrors \cup DoErrors
             THEN [v |-> ZeroRoot, resp |-> NilResp, err |-> collab[p]]
             ELSE clientDo(ZeroRoot, body[p])
        r == inboxResult(d.v, d.resp, d.err)
    IN  [root |-> r.root, err |-> r.err,
         out |-> IF path[p] = pathSent
                 THEN returnSent(r.root, r.resp, r.err)
                 ELSE returnInbox(r.root, r.resp, r.err)]

\* C14: two calls running concurrently do not interfere.  Under every
\* interleaving of their steps, what each call has decoded and what it
\* returns are what the same call gives when it runs alone.
C14_NoInterference ==
    \A p \in Callers :
        /\ (pc[p] = "ret") =>
               root[p] = Alone(p).root /\ err[p] = Alone(p).err
        /\ out[p].done => out[p] = Alone(p).out

\* C14 witness: both calls have decoded their bodies, two different
\* listings, and neither has returned yet.
C14_Witness ==
    /\ Callers = {1, 2}
    /\ pc[1] = "ret" /\ pc[2] = "ret"
    /\ IsListing(body[1]) /\ IsListing(body[2]) /\ body[1] # body[2]

-----------------------------------------------------------------------------
(* Properties of listing calls with options, under SpecListing *)

\* The pagination parameters a query holds for the options o: after, before
\* and limit, each exactly when its field is set, with the field's value.
IsQueryOf(q, o) ==
    /\ \A kv \in q : kv[1] \in {"after", "before", "limit"}
    /\ \A v \in Afters \cup Befores \cup {Itoa(l) : l \in Limits} :
         /\ <<"after", v>> \in q <=> (~o.nil /\ o.After # "" /\ v = o.After)
         /\ <<"before", v>> \in q <=> (~o.nil /\ o.Before # "" /\ v = o.Before)
         /\ <<"limit", v>> \in q <=> (~o.nil /\ o.Limit # 0 /\ v = Itoa(o.Limit))
    /\ Cardinality(q) <= 3

\* C12: a cursor given as a listing option is sent unchanged as the
\* request's query parameter.  The request of an inbox call and of a
\* subreddit listing call holds after, before and limit exactly when the
\* field of the options is set, with its value, and no other parameter.
C12_OptionsAreTheQuery ==
    /\ \A p \in Callers :
         req[p] # NoRequest =>
            /\ req[p].method = "GET" /\ req[p].path = path[p]
            /\ IsQueryOf(req[p].query, opts[p])
    /\ (call.op \in {"banned", "muted"} /\ built # NoRequest) =>
            /\ built.method = "GET"
            /\ built.path = aboutPath(call.arg[1], call.op)
            /\ IsQueryOf(built.query, call.arg[2])

\* C12 witness: an Inbox call asked for the page after a cursor, ten items
\* long, and its request holds after and limit and nothing else, while
\* Muted has asked for the page before a cursor, ten items long.
C12_Witness ==
    /\ path[1] = pathInbox /\ ReturnedOK(1)
    /\ opts[1] = ListOptions(10, "testafter", "")
    /\ req[1].query = {<<"after", "testafter">>, <<"limit", "10">>}
    /\ call.op = "muted" /\ ret.err = ErrNil
    /\ built.path = "/r/test/about/muted"
    /\ built.query = {<<"before", "testbefore">>, <<"limit", "10">>}

-----------------------------------------------------------------------------
(* Properties of the request-building methods, under SpecRequests *)

\* C15: SearchPosts chooses the request by its subreddit argument.  With
\* an empty subreddit it requests /r/all/search with the query {q}; with
\* a subreddit, or several joined by +, it requests /r/<subreddit>/search
\* with the query {q, restrict_sr=true}.
C15_SearchPostsBySubreddit ==
    (call.op = "SearchPosts" /\ built # NoRequest) =>
        LET q == call.arg[1]
            sr == call.arg[2]
        IN  /\ built.method = "GET"
            /\ built.form = {}
            /\ sr = "" =>
                 /\ built.path = "/r/all/search"
                 /\ built.query = {<<"q", q>>}
            /\ sr # "" =>
                 /\ built.path = "/r/" \o sr \o "/search"
                 /\ built.query = {<<"q", q>>, <<"restrict_sr", "true">>}
            /\ (\E kv \in built.query : kv[1] = "restrict_sr") <=> sr # ""

\* C15 witness: a search of all subreddits has been sent.
C15_Witness ==
    /\ call = [op |-> "SearchPosts", arg |-> <<"test", "">>]
    /\ sent /\ ret.err = ErrNil
    /\ built = Request("GET", "/r/all/search", {<<"q", "test">>}, {})

\* The last call was given an argument the method rejects.
InvalidArgument ==
    \/ /\ call.op \in {"Read", "Unread", "Collapse", "Uncollapse"}
       /\ Len(call.arg) = 0
    \/ /\ call.op = "Send"
       /\ call.arg.nil

\* C18: an invalid argument is rejected before any request exists.  Read,
\* Unread, Collapse and Uncollapse called with no ids, and Send called
\* with a nil request, return an error and a nil response, and neither
\* make a request nor send one.
C18_InvalidArgumentNoRequest ==
    InvalidArgument =>
        /\ ret.err # ErrNil
        /\ ret.err = (IF call.op = "Send" THEN errNilSendRequest ELSE errNoIDs)
        /\ ret.resp = NilResp
        /\ built = NoRequest
        /\ ~sent

\* C18 witness: Collapse was called with no ids and has returned its
\* error.
C18_Witness ==
    /\ call = [op |-> "Collapse", arg |-> <<>>]
    /\ ret = [resp |-> NilResp, err |-> errNoIDs]
    /\ built = NoRequest /\ ~sent

-----------------------------------------------------------------------------
(* Properties of a repeated decode, under SpecThings *)

\* C19: inboxThings.UnmarshalJSON does not accumulate.  Whatever the
\* inboxThings held before, after a decode its buckets hold the children
\* of the new input that match and decode, in order, and nothing else;
\* they are empty and not nil when the input is null or is rejected.
C19_NoAccumulation ==
    recvIn # CAbsent =>
        /\ ~recv.Comments.nil /\ ~recv.Messages.nil
        /\ (recvIn.t = "arr" /\ AllEnvelopes(recvIn.elems)) =>
             /\ recvErr = ErrNil
             /\ BucketIDs(recv.Comments) = EnvIDs(Matching(recvIn.elems, "t1"))
             /\ BucketIDs(recv.Messages) = EnvIDs(Matching(recvIn.elems, "t4"))
        /\ (recvIn.t # "arr" \/ recvErr # ErrNil) =>
             recv.Comments.elems = <<>> /\ recv.Messages.elems = <<>>
        /\ recvIn.t \notin {"arr", "null"} => recvErr # ErrNil

\* C19 witness: an inboxThings that held two items has been decoded into
\* again, from an array of one message, and holds that message alone.
C19_Witness ==
    /\ recvHeld = 2
    /\ recvIn = CArr(<<Env(kindMessage, PObj("b", "false"))>>)
    /\ recvErr = ErrNil
    /\ recv.Comments.elems = <<>>
    /\ BucketIDs(recv.Messages) = <<"b">>

====
